---- MODULE Spec2Model ----
(***************************************************************************)
(* Silicon Symposium (app.py): the viewport fitter truncate_text_to_fit    *)
(* and the turn controller of main / run_conversation_turn /               *)
(* get_agent_response.                                                     *)
(*                                                                         *)
(* Text is a sequence of one-character strings; Python's text[s:] is       *)
(* Slice(text, s).  The rendering oracle get_rendered_height is an         *)
(* external collaborator (rich): the variable oracle fixes, per run, which *)
(* deterministic oracle answers.                                           *)
(***************************************************************************)
EXTENDS Integers, Sequences, FiniteSets, TLC

\* ------------------------------------------------------------------------
\* Bounds of the model
\* ------------------------------------------------------------------------
MaxTableLen == 4      \* longest text measured by a tabulated oracle
MaxHeight == 2        \* largest height a tabulated oracle answers
MaxWrapLen == 10      \* longest text measured by the wrapping oracle
MaxWidth == 5         \* largest width handed to the wrapping oracle
MaxLines == 2         \* largest max_lines budget of a fitter call
MaxTurns == 5         \* turns main starts before the model stops it
MaxChunks == 2        \* chunks one completion stream delivers at most

VARIABLES
    oracle,           \* the measurement oracle of this run
    \* truncate_text_to_fit, one call in progress
    text, max_lines, width,
    low, high, best_start,
    fit_pc,           \* "entry" | "search" | "returned"
    fit_result,       \* the returned string (<<>> until returned)
    measurements,     \* calls of get_rendered_height made by this call
    probed,           \* offsets probed by the binary search of this call
    fit_input,        \* the text of the first call
    fit_round,        \* 1: first call, 2: the call on the first call's result
    first_result,     \* what the first call returned
    \* main and the turn in progress
    site,             \* the call of run_conversation_turn main is at
    phase,            \* "ready" | "requesting" | "streaming" | "interrupted"
                      \* | "exited" | "raised"
    nietzsche_messages, heidegger_messages,
    nietzsche_response, heidegger_response,
    conversation_log,
    full_response,    \* get_agent_response's accumulator
    available_height, available_width,
    conversation_panel, \* layout["conversation"]: [text, title]
    printed,          \* what the closing rich_print(layout) showed
    raised,           \* the exception main re-raised (<<>>: none)
    turns,            \* the agent_name of every turn started, in order
    chunks_seen,      \* chunks delivered by the stream of this turn
    chunks,           \* their delta.content, in order of arrival
    streams           \* the agents whose completion stream is open

fit_vars == <<text, max_lines, width, low, high, best_start, fit_pc,
              fit_result, measurements, probed, fit_input, fit_round,
              first_result>>

ctl_vars == <<site, phase, nietzsche_messages, heidegger_messages,
              nietzsche_response, heidegger_response, conversation_log,
              full_response, available_height, available_width,
              conversation_panel, printed, raised, turns, chunks_seen,
              chunks, streams>>

vars == <<oracle, fit_vars, ctl_vars>>

\* ------------------------------------------------------------------------
\* Strings
\* ------------------------------------------------------------------------
\* The characters "0123456789ab": the text of length n is their first n.
DigitChars == <<"0", "1", "2", "3", "4", "5", "6", "7", "8", "9", "a", "b">>

DigitText(n) == SubSeq(DigitChars, 1, n)

\* the slip text[:start] for text[start:]
SlicePrefix(t, start) == SubSeq(t, 1, start)

\* text[start:] for 0 <= start <= len(text)
Slice(t, start) == SubSeq(t, start + 1, Len(t))

\* ------------------------------------------------------------------------
\* The measurement oracle
\* ------------------------------------------------------------------------
CeilDiv(a, b) == (a + b - 1) \div b

\* Every text a fitter call measures is a suffix of the call's text, so a
\* deterministic oracle is a table from the suffix's length to its height.
\* kind "wrap" is the stand-in oracle ceil(len(text) / width).
get_rendered_height(t, w) ==
    IF oracle.kind = "wrap" THEN CeilDiv(Len(t), w) ELSE oracle.tab[Len(t)]

\* ------------------------------------------------------------------------
\* truncate_text_to_fit, step by step
\* ------------------------------------------------------------------------
\* mid = (low + high) // 2
Mid(lo, hi) == (lo + hi) \div 2

\* the slip "height < max_lines" in the two comparisons
FitsStrict(height, budget) == height < budget

\* height <= max_lines
Fits(height, budget) == height <= budget

\* the slip "max_lines < 0" in the degenerate-budget test
PassThroughStrict(budget) == budget < 0

\* if max_lines <= 0: return text
PassThrough(budget) == budget <= 0

\* the slip "low = low + 1" in the non-fitting branch
SearchStepCreep(t, budget, w, st) ==
    LET mid == Mid(st.low, st.high)
        height == get_rendered_height(Slice(t, mid), w)
    IN  IF Fits(height, budget)
        THEN [low |-> st.low, high |-> mid, best_start |-> mid]
        ELSE [low |-> st.low + 1, high |-> st.high, best_start |-> st.best_start]

\* the slip of recording best_start in the non-fitting branch too
SearchStepKeepLast(t, budget, w, st) ==
    LET mid == Mid(st.low, st.high)
        height == get_rendered_height(Slice(t, mid), w)
    IN  IF Fits(height, budget)
        THEN [low |-> st.low, high |-> mid, best_start |-> mid]
        ELSE [low |-> mid + 1, high |-> st.high, best_start |-> mid]

\* the slip "high = mid - 1" in the fitting branch
SearchStepSkip(t, budget, w, st) ==
    LET mid == Mid(st.low, st.high)
        height == get_rendered_height(Slice(t, mid), w)
    IN  IF Fits(height, budget)
        THEN [low |-> st.low, high |-> mid - 1, best_start |-> mid]
        ELSE [low |-> mid + 1, high |-> st.high, best_start |-> st.best_start]

\* one iteration of the while loop
SearchStep(t, budget, w, st) ==
    LET mid == Mid(st.low, st.high)
        height == get_rendered_height(Slice(t, mid), w)
    IN  IF Fits(height, budget)
        THEN [low |-> st.low, high |-> mid, best_start |-> mid]
        ELSE [low |-> mid + 1, high |-> st.high, best_start |-> st.best_start]

\* low, high = 0, len(text); best_start = 0
SearchInit(t) == [low |-> 0, high |-> Len(t), best_start |-> 0]

\* the slip text[best_start + 1:] in the return
ReturnedWindowOffByOne(t, best) == Slice(t, best + 1)

\* return text[best_start:]
ReturnedWindow(t, best) == Slice(t, best)

FitPassThrough ==
    /\ fit_pc = "entry"
    /\ PassThrough(max_lines)
    /\ fit_result' = text
    /\ fit_pc' = "returned"
    /\ UNCHANGED <<oracle, text, max_lines, width, low, high, best_start,
                   measurements, probed, fit_input, fit_round, first_result>>
    /\ UNCHANGED ctl_vars

FitWhole ==
    /\ fit_pc = "entry"
    /\ ~PassThrough(max_lines)
    /\ Fits(get_rendered_height(text, width), max_lines)
    /\ measurements' = measurements + 1
    /\ fit_result' = text
    /\ fit_pc' = "returned"
    /\ UNCHANGED <<oracle, text, max_lines, width, low, high, best_start,
                   probed, fit_input, fit_round, first_result>>
    /\ UNCHANGED ctl_vars

FitStartSearch ==
    /\ fit_pc = "entry"
    /\ ~PassThrough(max_lines)
    /\ ~Fits(get_rendered_height(text, width), max_lines)
    /\ measurements' = measurements + 1
    /\ low' = SearchInit(text).low
    /\ high' = SearchInit(text).high
    /\ best_start' = SearchInit(text).best_start
    /\ fit_pc' = "search"
    /\ UNCHANGED <<oracle, text, max_lines, width, fit_result, probed,
                   fit_input, fit_round, first_result>>
    /\ UNCHANGED ctl_vars

FitProbe ==
    /\ fit_pc = "search"
    /\ low < high
    /\ LET st == SearchStep(text, max_lines, width,
                            [low |-> low, high |-> high, best_start |-> best_start])
       IN  /\ low' = st.low
           /\ high' = st.high
           /\ best_start' = st.best_start
    /\ measurements' = measurements + 1
    /\ probed' = probed \cup {Mid(low, high)}
    /\ UNCHANGED <<oracle, text, max_lines, width, fit_pc, fit_result,
                   fit_input, fit_round, first_result>>
    /\ UNCHANGED ctl_vars

FitReturn ==
    /\ fit_pc = "search"
    /\ ~(low < high)
    /\ fit_result' = ReturnedWindow(text, best_start)
    /\ fit_pc' = "returned"
    /\ UNCHANGED <<oracle, text, max_lines, width, low, high, best_start,
                   measurements, probed, fit_input, fit_round, first_result>>
    /\ UNCHANGED ctl_vars

\* fit(fit(text, L, W), L, W): the same budget and oracle, on the result
FitAgain ==
    /\ fit_pc = "returned"
    /\ fit_round = 1
    /\ text' = fit_result
    /\ first_result' = fit_result
    /\ fit_round' = 2
    /\ fit_pc' = "entry"
    /\ fit_result' = <<>>
    /\ measurements' = 0
    /\ probed' = {}
    /\ low' = 0
    /\ high' = 0
    /\ best_start' = 0
    /\ UNCHANGED <<oracle, max_lines, width, fit_input>>
    /\ UNCHANGED ctl_vars

\* ------------------------------------------------------------------------
\* truncate_text_to_fit as get_agent_response calls it: the same steps, run
\* to the end
\* ------------------------------------------------------------------------
RECURSIVE BinarySearch(_, _, _, _)
BinarySearch(t, budget, w, st) ==
    IF st.low < st.high
    THEN BinarySearch(t, budget, w, SearchStep(t, budget, w, st))
    ELSE st

truncate_text_to_fit(t, budget, w) ==
    IF PassThrough(budget) THEN t
    ELSE IF Fits(get_rendered_height(t, w), budget) THEN t
    ELSE ReturnedWindow(t, BinarySearch(t, budget, w, SearchInit(t)).best_start)

\* ------------------------------------------------------------------------
\* Configuration and layout arithmetic
\* ------------------------------------------------------------------------
SETUP_HEIGHT_PADDING == 12
SEED_MESSAGES_HEIGHT == 7
PANEL_BORDER_PADDING == 4
PANEL_WIDTH_PADDING == 4

\* The long constant strings are one token each.
ROLE_NIETZSCHE == <<"ROLE_NIETZSCHE">>
ROLE_HEIDEGGER == <<"ROLE_HEIDEGGER">>
FIRST_QUESTION == <<"FIRST_QUESTION">>
FIRST_ANSWER == <<"FIRST_ANSWER">>

\* role.count("\n"): both role texts span ten source lines
RoleNewlines(role) == 9

Max(a, b) == IF a >= b THEN a ELSE b

calculate_max_role_height(role_1, role_2) ==
    Max(RoleNewlines(role_1) + 1, RoleNewlines(role_2) + 1)

\* Console(): the terminal's size, fixed for the run
ConsoleSizes ==
    {[height |-> 33, width |-> 12],
     [height |-> 35, width |-> 12],
     [height |-> 36, width |-> 14]}

AvailableHeight(console) ==
    console.height
    - (calculate_max_role_height(ROLE_NIETZSCHE, ROLE_HEIDEGGER) + SETUP_HEIGHT_PADDING)
    - SEED_MESSAGES_HEIGHT - PANEL_BORDER_PADDING

AvailableWidth(console) == console.width - PANEL_WIDTH_PADDING

\* ------------------------------------------------------------------------
\* The transcript
\* ------------------------------------------------------------------------
NameChars(agent_name) ==
    IF agent_name = "Nietzsche"
    THEN <<"N", "i", "e", "t", "z", "s", "c", "h", "e">>
    ELSE <<"H", "e", "i", "d", "e", "g", "g", "e", "r">>

\* "**{agent_name}:**\n\n"
Header(agent_name) ==
    <<"*", "*">> \o NameChars(agent_name) \o <<":", "*", "*", "\n", "\n">>

\* the slip of a display that leaves out the speaker's header
CurrentDisplayNoHeader(log, agent_name, response) == log \o response

\* f"{conversation_log}**{agent_name}:**\n\n{full_response}"
CurrentDisplay(log, agent_name, response) ==
    log \o Header(agent_name) \o response

\* the slip of a fold that keeps only the latest block
UpdatedLogLatestOnly(log, agent_name, response) ==
    Header(agent_name) \o response \o <<"\n", "\n">>

\* the slip of a fold that leaves out the blank-line separator
UpdatedLogNoSeparator(log, agent_name, response) ==
    log \o Header(agent_name) \o response

\* f"{conversation_log}**{agent_name}:**\n\n{full_response}\n\n"
UpdatedLog(log, agent_name, response) ==
    log \o Header(agent_name) \o response \o <<"\n", "\n">>

\* the slip of a title that names a fixed speaker
SpeakingPanelFixedTitle(display_text, agent_name) ==
    [text |-> display_text,
     title |-> <<"Conversation - ", "Nietzsche", " speaking...">>]

\* Panel(Markdown(display_text), title=f"Conversation - {agent_name} speaking...")
SpeakingPanel(display_text, agent_name) ==
    [text |-> display_text,
     title |-> <<"Conversation - ", agent_name, " speaking...">>]

\* initialize_layout: the waiting panel
WaitingPanel ==
    [text |-> <<":thinking_face: waiting for the first response...">>,
     title |-> <<"Conversation">>]

UserEntry(prompt) == [role |-> "user", content |-> prompt]

\* the slip of a copied line: the response stored with the role "user"
AssistantEntryAsUser(response) == [role |-> "user", content |-> response]

AssistantEntry(response) == [role |-> "assistant", content |-> response]

\* what a chunk's delta.content can be: None or "" (both falsy), or text;
\* each agent's model answers in its own letter
ChunkContents(agent_name) ==
    IF agent_name = "Nietzsche" THEN {<<>>, <<"n">>} ELSE {<<>>, <<"h">>}

\* the exception completion() or the stream raises
CompletionError == <<"completion error">>

\* f"Failed to get response from {agent_name}: {e}"
WrappedError(agent_name, e) ==
    <<"Failed to get response from ", agent_name, ": ">> \o e

\* ------------------------------------------------------------------------
\* main: the four calls of run_conversation_turn
\* ------------------------------------------------------------------------
\* the slip of a copied call left addressing Nietzsche in the loop
CallSiteCopied(s) ==
    IF s \in {"turn1", "loop_nietzsche", "loop_heidegger"}
    THEN [agent_name |-> "Nietzsche", history |-> "nietzsche_messages"]
    ELSE [agent_name |-> "Heidegger", history |-> "heidegger_messages"]

\* agent_name and agent_messages of each call
CallSite(s) ==
    IF s \in {"turn1", "loop_nietzsche"}
    THEN [agent_name |-> "Nietzsche", history |-> "nietzsche_messages"]
    ELSE [agent_name |-> "Heidegger", history |-> "heidegger_messages"]

\* the slip of a loop that feeds Heidegger his own last response
SitePromptOwn(s) ==
    CASE s = "turn1" -> FIRST_QUESTION
      [] s = "turn2" -> nietzsche_response \o <<"\n", "\n">> \o FIRST_ANSWER
      [] s = "loop_nietzsche" -> heidegger_response
      [] s = "loop_heidegger" -> heidegger_response

\* the prompt argument of each call
SitePrompt(s) ==
    CASE s = "turn1" -> FIRST_QUESTION
      [] s = "turn2" -> nietzsche_response \o <<"\n", "\n">> \o FIRST_ANSWER
      [] s = "loop_nietzsche" -> heidegger_response
      [] s = "loop_heidegger" -> nietzsche_response

\* the slip of a loop that never returns to Nietzsche's call
NextSiteStuck(s) ==
    CASE s = "turn1" -> "turn2"
      [] s = "turn2" -> "loop_nietzsche"
      [] s = "loop_nietzsche" -> "loop_heidegger"
      [] s = "loop_heidegger" -> "loop_heidegger"

\* the call that follows each call
NextSite(s) ==
    CASE s = "turn1" -> "turn2"
      [] s = "turn2" -> "loop_nietzsche"
      [] s = "loop_nietzsche" -> "loop_heidegger"
      [] s = "loop_heidegger" -> "loop_nietzsche"

MessagesOf(history) ==
    IF history = "nietzsche_messages" THEN nietzsche_messages
    ELSE heidegger_messages

\* run_conversation_turn, line 310: the user entry; then completion() is
\* being called
StartTurn ==
    /\ phase = "ready"
    /\ Len(turns) < MaxTurns
    /\ LET c == CallSite(site)
           entry == UserEntry(SitePrompt(site))
       IN  /\ IF c.history = "nietzsche_messages"
              THEN /\ nietzsche_messages' = Append(nietzsche_messages, entry)
                   /\ UNCHANGED heidegger_messages
              ELSE /\ heidegger_messages' = Append(heidegger_messages, entry)
                   /\ UNCHANGED nietzsche_messages
           /\ turns' = Append(turns, c.agent_name)
    /\ phase' = "requesting"
    /\ chunks_seen' = 0
    /\ chunks' = <<>>
    /\ UNCHANGED <<site, nietzsche_response, heidegger_response,
                   conversation_log, full_response, available_height,
                   available_width, conversation_panel, printed, raised,
                   streams>>
    /\ UNCHANGED <<oracle, fit_vars>>

\* completion(...) returned the stream; full_response = ""
CompletionReturns ==
    /\ phase = "requesting"
    /\ phase' = "streaming"
    /\ full_response' = <<>>
    /\ chunks_seen' = 0
    /\ chunks' = <<>>
    /\ streams' = streams \cup {CallSite(site).agent_name}
    /\ UNCHANGED <<site, nietzsche_messages, heidegger_messages,
                   nietzsche_response, heidegger_response, conversation_log,
                   available_height, available_width, conversation_panel,
                   printed, raised, turns>>
    /\ UNCHANGED <<oracle, fit_vars>>

\* the slip of a handler that records the failure and asks again
CompletionFailsRetry ==
    /\ phase = "requesting"
    /\ raised = <<>>
    /\ phase' = "requesting"
    /\ raised' = WrappedError(CallSite(site).agent_name, CompletionError)
    /\ UNCHANGED <<site, nietzsche_messages, heidegger_messages,
                   nietzsche_response, heidegger_response, conversation_log,
                   full_response, available_height, available_width,
                   conversation_panel, printed, turns, chunks_seen,
                   chunks, streams>>
    /\ UNCHANGED <<oracle, fit_vars>>

\* completion(...) raised: wrapped with the agent's name, printed by main's
\* except Exception and re-raised
CompletionFails ==
    /\ phase = "requesting"
    /\ phase' = "raised"
    /\ raised' = WrappedError(CallSite(site).agent_name, CompletionError)
    /\ UNCHANGED <<site, nietzsche_messages, heidegger_messages,
                   nietzsche_response, heidegger_response, conversation_log,
                   full_response, available_height, available_width,
                   conversation_panel, printed, turns, chunks_seen,
                   chunks, streams>>
    /\ UNCHANGED <<oracle, fit_vars>>

\* the slip of building the display before "full_response += content":
\* the panel lags one chunk behind
ChunkWithContentStale ==
    /\ phase = "streaming"
    /\ chunks_seen < MaxChunks
    /\ \E content \in ChunkContents(CallSite(site).agent_name) \ {<<>>} :
         LET agent_name == CallSite(site).agent_name
             current_display == CurrentDisplay(conversation_log, agent_name,
                                               full_response)
             display_text == truncate_text_to_fit(current_display, available_height,
                                                  available_width)
         IN  /\ full_response' = full_response \o content
             /\ chunks' = Append(chunks, content)
             /\ conversation_panel' = SpeakingPanel(display_text, agent_name)
    /\ chunks_seen' = chunks_seen + 1
    /\ UNCHANGED <<site, phase, nietzsche_messages, heidegger_messages,
                   nietzsche_response, heidegger_response, conversation_log,
                   available_height, available_width, printed, raised, turns,
                   streams>>
    /\ UNCHANGED <<oracle, fit_vars>>

\* a chunk whose content is text: accumulate, fit, update the panel
ChunkWithContent ==
    /\ phase = "streaming"
    /\ chunks_seen < MaxChunks
    /\ \E content \in ChunkContents(CallSite(site).agent_name) \ {<<>>} :
         LET agent_name == CallSite(site).agent_name
             response == full_response \o content
             current_display == CurrentDisplay(conversation_log, agent_name, response)
             display_text == truncate_text_to_fit(current_display, available_height,
                                                  available_width)
         IN  /\ full_response' = response
             /\ chunks' = Append(chunks, content)
             /\ conversation_panel' = SpeakingPanel(display_text, agent_name)
    /\ chunks_seen' = chunks_seen + 1
    /\ UNCHANGED <<site, phase, nietzsche_messages, heidegger_messages,
                   nietzsche_response, heidegger_response, conversation_log,
                   available_height, available_width, printed, raised, turns,
                   streams>>
    /\ UNCHANGED <<oracle, fit_vars>>

\* a chunk whose content is None or "": "if content:" skips it
ChunkWithoutContent ==
    /\ phase = "streaming"
    /\ chunks_seen < MaxChunks
    /\ <<>> \in ChunkContents(CallSite(site).agent_name)
    /\ chunks' = Append(chunks, <<>>)
    /\ chunks_seen' = chunks_seen + 1
    /\ UNCHANGED <<site, phase, nietzsche_messages, heidegger_messages,
                   nietzsche_response, heidegger_response, conversation_log,
                   full_response, available_height, available_width,
                   conversation_panel, printed, raised, turns, streams>>
    /\ UNCHANGED <<oracle, fit_vars>>

\* the stream raised while being iterated: outside get_agent_response's
\* try, so the exception reaches main as it is
StreamFails ==
    /\ phase = "streaming"
    /\ phase' = "raised"
    /\ raised' = CompletionError
    /\ streams' = streams \ {CallSite(site).agent_name}
    /\ UNCHANGED <<site, nietzsche_messages, heidegger_messages,
                   nietzsche_response, heidegger_response, conversation_log,
                   full_response, available_height, available_width,
                   conversation_panel, printed, turns, chunks_seen,
                   chunks>>
    /\ UNCHANGED <<oracle, fit_vars>>

\* the stream ended: lines 188-190, 323-325 and the assignment in main
StreamEnds ==
    /\ phase = "streaming"
    /\ LET c == CallSite(site)
           entry == AssistantEntry(full_response)
       IN  /\ conversation_log' =
                UpdatedLog(conversation_log, c.agent_name, full_response)
           /\ IF c.history = "nietzsche_messages"
              THEN /\ nietzsche_messages' = Append(nietzsche_messages, entry)
                   /\ nietzsche_response' = full_response
                   /\ UNCHANGED <<heidegger_messages, heidegger_response>>
              ELSE /\ heidegger_messages' = Append(heidegger_messages, entry)
                   /\ heidegger_response' = full_response
                   /\ UNCHANGED <<nietzsche_messages, nietzsche_response>>
           /\ streams' = streams \ {c.agent_name}
    /\ site' = NextSite(site)
    /\ phase' = "ready"
    /\ UNCHANGED <<full_response, available_height, available_width,
                   conversation_panel, printed, raised, turns, chunks_seen,
                   chunks>>
    /\ UNCHANGED <<oracle, fit_vars>>

\* the slip of an interrupt handler that flushes the partial response into
\* the speaker's history and the log
InterruptFlush ==
    /\ phase \in {"requesting", "streaming"}
    /\ phase' = "interrupted"
    /\ streams' = {}
    /\ LET c == CallSite(site)
           entry == AssistantEntry(full_response)
       IN  /\ conversation_log' =
                UpdatedLog(conversation_log, c.agent_name, full_response)
           /\ IF c.history = "nietzsche_messages"
              THEN /\ nietzsche_messages' = Append(nietzsche_messages, entry)
                   /\ UNCHANGED heidegger_messages
              ELSE /\ heidegger_messages' = Append(heidegger_messages, entry)
                   /\ UNCHANGED nietzsche_messages
    /\ UNCHANGED <<site, nietzsche_response, heidegger_response,
                   full_response, available_height, available_width,
                   conversation_panel, printed, raised, turns, chunks_seen,
                   chunks>>
    /\ UNCHANGED <<oracle, fit_vars>>

\* KeyboardInterrupt at a suspension point, waiting for completion() or for
\* the next chunk (the handling of a chunk and the fold are atomic here):
\* not an Exception, so line 159 lets it pass; main prints the notice
Interrupt ==
    /\ phase \in {"requesting", "streaming"}
    /\ phase' = "interrupted"
    /\ streams' = {}
    /\ UNCHANGED <<site, nietzsche_messages, heidegger_messages,
                   nietzsche_response, heidegger_response, conversation_log,
                   full_response, available_height, available_width,
                   conversation_panel, printed, raised, turns, chunks_seen,
                   chunks>>
    /\ UNCHANGED <<oracle, fit_vars>>

\* line 420: rich_print(layout), reached after an interrupt only
FinalPrint ==
    /\ phase = "interrupted"
    /\ phase' = "exited"
    /\ printed' = conversation_panel
    /\ UNCHANGED <<site, nietzsche_messages, heidegger_messages,
                   nietzsche_response, heidegger_response, conversation_log,
                   full_response, available_height, available_width,
                   conversation_panel, raised, turns, chunks_seen,
                   chunks, streams>>
    /\ UNCHANGED <<oracle, fit_vars>>

\* main, lines 331-352, for one terminal size
MainInit(console) ==
    /\ site = "turn1"
    /\ phase = "ready"
    /\ nietzsche_messages = <<[role |-> "system", content |-> ROLE_NIETZSCHE]>>
    /\ heidegger_messages = <<[role |-> "system", content |-> ROLE_HEIDEGGER]>>
    /\ nietzsche_response = <<>>
    /\ heidegger_response = <<>>
    /\ conversation_log = <<>>
    /\ full_response = <<>>
    /\ available_height = AvailableHeight(console)
    /\ available_width = AvailableWidth(console)
    /\ conversation_panel = WaitingPanel
    /\ printed = <<>>
    /\ raised = <<>>
    /\ turns = <<>>
    /\ chunks_seen = 0
    /\ chunks = <<>>
    /\ streams = {}

\* ------------------------------------------------------------------------
\* The fitter's specification: every input within the bounds
\* ------------------------------------------------------------------------
Budgets == -1 .. MaxLines

FitCallInit(t, budget, w) ==
    /\ text = t
    /\ fit_input = t
    /\ max_lines = budget
    /\ width = w
    /\ low = 0
    /\ high = 0
    /\ best_start = 0
    /\ fit_pc = "entry"
    /\ fit_result = <<>>
    /\ measurements = 0
    /\ probed = {}
    /\ fit_round = 1
    /\ first_result = <<>>

InitFit ==
    \/ \E n \in 0 .. MaxTableLen, budget \in Budgets :
         /\ oracle \in {[kind |-> "table", tab |-> f] :
                          f \in [0 .. n -> 0 .. MaxHeight]}
         /\ FitCallInit(DigitText(n), budget, 1)
         /\ MainInit([height |-> 33, width |-> 12])
    \/ \E n \in 0 .. MaxWrapLen, budget \in Budgets, w \in 1 .. MaxWidth :
         /\ oracle = [kind |-> "wrap"]
         /\ FitCallInit(DigitText(n), budget, w)
         /\ MainInit([height |-> 33, width |-> 12])

NextFit ==
    \/ FitPassThrough
    \/ FitWhole
    \/ FitStartSearch
    \/ FitProbe
    \/ FitReturn
    \/ FitAgain

SpecFit == InitFit /\ [][NextFit]_vars

\* ------------------------------------------------------------------------
\* The run of main: every terminal size, stream and interruption within
\* the bounds, measured by the wrapping oracle
\* ------------------------------------------------------------------------
Init ==
    /\ oracle = [kind |-> "wrap"]
    /\ FitCallInit(<<>>, 0, 1)
    /\ \E console \in ConsoleSizes : MainInit(console)

Next ==
    \/ StartTurn
    \/ CompletionReturns
    \/ CompletionFails
    \/ ChunkWithContent
    \/ ChunkWithoutContent
    \/ StreamFails
    \/ StreamEnds
    \/ Interrupt
    \/ FinalPrint

Spec == Init /\ [][Next]_vars

\* ------------------------------------------------------------------------
\* Normal operation: no interrupt and no completion failure; main runs on,
\* completion() returns and every stream ends
\* ------------------------------------------------------------------------
NextNormal ==
    \/ StartTurn
    \/ CompletionReturns
    \/ ChunkWithContent
    \/ ChunkWithoutContent
    \/ StreamEnds

SpecLive ==
    /\ Init
    /\ [][NextNormal]_vars
    /\ WF_vars(StartTurn)
    /\ WF_vars(CompletionReturns)
    /\ WF_vars(StreamEnds)

\* ------------------------------------------------------------------------
\* Properties of truncate_text_to_fit (checked under SpecFit)
\* ------------------------------------------------------------------------
Min(a, b) == IF a <= b THEN a ELSE b

\* measure(fit_input[s:]) under this run's oracle and width
HeightAt(s) ==
    get_rendered_height(SubSeq(fit_input, s + 1, Len(fit_input)), width)

\* the oracle is non-increasing in the start offset
MonotoneOracle ==
    \A s \in 0 .. Len(fit_input) - 1 : HeightAt(s + 1) <= HeightAt(s)

\* the offsets in [0, len(text)] whose suffix is within the budget
FittingOffsets == {s \in 0 .. Len(fit_input) : HeightAt(s) <= max_lines}

SmallestFittingOffset ==
    CHOOSE s \in FittingOffsets : \A t \in FittingOffsets : s <= t

FirstCallReturned == fit_pc = "returned" /\ fit_round = 1

\* The step-by-step call and the function get_agent_response calls return
\* the same window (holds under SpecFit).
StepsAgreeWithFunction ==
    fit_pc = "returned"
    => fit_result = truncate_text_to_fit(text, max_lines, width)

\* C1: (the claim as stated) with L > 0 and an oracle non-increasing in the
\* start offset, when measure(text) > L the call returns text[s:] for the
\* smallest s in [0, len(text)] with measure(text[s:]) <= L, so the result
\* is within the budget whenever some suffix, the empty one included, is.
C1_BudgetRespected ==
    (/\ FirstCallReturned
     /\ max_lines > 0
     /\ MonotoneOracle
     /\ HeightAt(0) > max_lines
     /\ FittingOffsets # {})
    => (/\ fit_result = SubSeq(fit_input, SmallestFittingOffset + 1, Len(fit_input))
        /\ get_rendered_height(fit_result, width) <= max_lines)

\* C2: Maximality: with L > 0 and an oracle non-increasing in the start
\* offset, every suffix of the text strictly longer than the returned one
\* exceeds the budget (so the suffix starting one character earlier does).
C2_Maximality ==
    (FirstCallReturned /\ max_lines > 0 /\ MonotoneOracle)
    => \A s \in 0 .. Len(fit_input) :
         (Len(fit_input) - s > Len(fit_result)) => HeightAt(s) > max_lines

\* C2 witness: a monotone oracle and a real truncation to a non-empty window
C2_Witness ==
    /\ FirstCallReturned
    /\ max_lines > 0
    /\ MonotoneOracle
    /\ Len(fit_result) > 0
    /\ Len(fit_result) + 1 < Len(fit_input)

\* C3: Suffix property: for every oracle and every max_lines the returned
\* value is text[s:] for some 0 <= s <= len(text); empty text returns empty.
C3_Suffix ==
    fit_pc = "returned"
    => /\ \E s \in 0 .. Len(text) : fit_result = SubSeq(text, s + 1, Len(text))
       /\ (text = <<>> => fit_result = <<>>)

\* C3 witness: a truncated, non-empty window under a non-monotone oracle
C3_Witness ==
    /\ FirstCallReturned
    /\ ~MonotoneOracle
    /\ Len(fit_result) > 0
    /\ Len(fit_result) < Len(fit_input)

\* C4: Pass-through: the text is returned unchanged when max_lines <= 0
\* (and then the oracle is not consulted) or when measure(text) <= max_lines.
C4_PassThrough ==
    fit_pc = "returned"
    => /\ (max_lines <= 0 => fit_result = text /\ measurements = 0)
       /\ (get_rendered_height(text, width) <= max_lines => fit_result = text)

\* C4 witness: a zero budget on a text that measures more than zero lines
\* and has a suffix of height zero
C4_Witness ==
    /\ FirstCallReturned
    /\ max_lines = 0
    /\ HeightAt(0) > 0
    /\ \E s \in 1 .. Len(fit_input) : HeightAt(s) = 0

\* C5: Fit idempotence: with L > 0 and W > 0, fitting the result of a fit
\* again with the same budget and oracle returns it unchanged.
C5_Idempotent ==
    (fit_pc = "returned" /\ fit_round = 2 /\ max_lines > 0 /\ width > 0)
    => fit_result = first_result

\* C5 witness: the second call has returned and the first one had truncated
C5_Witness ==
    /\ fit_pc = "returned"
    /\ fit_round = 2
    /\ max_lines > 0
    /\ Len(first_result) > 0
    /\ Len(first_result) < Len(fit_input)

\* C6: with the stand-in oracle ceil(len(text)/W), L > 0 and W > 0, the
\* call returns exactly the last min(len(text), L*W) characters of text.
C6_StandIn ==
    (FirstCallReturned /\ oracle.kind = "wrap" /\ max_lines > 0 /\ width > 0)
    => fit_result =
         SubSeq(fit_input,
                Len(fit_input) - Min(Len(fit_input), max_lines * width) + 1,
                Len(fit_input))

\* C6 witness: "0123456789", W = 5, L = 1 gives "56789"
C6_Witness ==
    /\ FirstCallReturned
    /\ oracle.kind = "wrap"
    /\ fit_input = <<"0", "1", "2", "3", "4", "5", "6", "7", "8", "9">>
    /\ width = 5
    /\ max_lines = 1
    /\ fit_result = <<"5", "6", "7", "8", "9">>

\* ------------------------------------------------------------------------
\* Properties of the turn controller (checked under Spec)
\* ------------------------------------------------------------------------
CountRole(messages, r) ==
    Cardinality({i \in 1 .. Len(messages) : messages[i].role = r})

\* completed blocks of the log: each header holds the log's only ":"
LogBlocks ==
    Cardinality({i \in 1 .. Len(conversation_log) : conversation_log[i] = ":"})

AssistantEntries ==
    CountRole(nietzsche_messages, "assistant")
    + CountRole(heidegger_messages, "assistant")

\* the history of the speaker whose turn is the latest started
ActiveHistory ==
    IF turns[Len(turns)] = "Nietzsche" THEN nietzsche_messages
    ELSE heidegger_messages

\* C7: Turn alternation: the first turn addresses Nietzsche, consecutive
\* turns address different speakers, a turn starts only after every
\* earlier turn's stream has ended and its block has been folded, and at
\* most one stream is open at any time.
C7_TurnAlternation ==
    /\ (turns # <<>> => turns[1] = "Nietzsche")
    /\ \A i \in 1 .. Len(turns) - 1 : turns[i] # turns[i + 1]
    /\ Cardinality(streams) <= 1
    /\ (phase \in {"requesting", "streaming"}
          => /\ LogBlocks = Len(turns) - 1
             /\ AssistantEntries = Len(turns) - 1
             /\ streams \subseteq {turns[Len(turns)]})
    /\ (phase = "ready"
          => /\ LogBlocks = Len(turns)
             /\ AssistantEntries = Len(turns)
             /\ streams = {})

\* C7 witness: the fifth turn (the loop has come round) is streaming
C7_Witness ==
    /\ Len(turns) = 5
    /\ phase = "streaming"
    /\ chunks_seen >= 1

HistoryShape(messages) ==
    /\ Len(messages) >= 1
    /\ messages[1].role = "system"
    /\ \A i \in 2 .. Len(messages) :
         messages[i].role = (IF i % 2 = 0 THEN "user" ELSE "assistant")
    /\ CountRole(messages, "system") = 1
    /\ CountRole(messages, "user") - CountRole(messages, "assistant") \in {0, 1}

\* C8: in every reachable state each speaker's history is system,
\* (user, assistant)*, optionally one trailing user.
C8_HistoryShape ==
    HistoryShape(nietzsche_messages) /\ HistoryShape(heidegger_messages)

\* C8 witness: a run cancelled in Heidegger's second turn, after two
\* complete turns of Nietzsche
C8_Witness ==
    /\ phase = "exited"
    /\ Len(nietzsche_messages) = 5
    /\ Len(heidegger_messages) = 4

\* the formal conversation state holds nothing of the latest turn
TurnDiscarded ==
    /\ ActiveHistory[Len(ActiveHistory)].role = "user"
    /\ AssistantEntries = Len(turns) - 1
    /\ LogBlocks = Len(turns) - 1
    /\ raised = <<>>

\* C9: Cancellation discards the in-flight turn: an interrupt, before the
\* stream is obtained or after any number of chunks, and the exit after it
\* leave both histories and the log as they were, with no assistant entry
\* and no block for the cancelled turn, and raise nothing.
C9_CancellationDiscards ==
    [][phase' \in {"interrupted", "exited"}
         => /\ nietzsche_messages' = nietzsche_messages
            /\ heidegger_messages' = heidegger_messages
            /\ conversation_log' = conversation_log
            /\ TurnDiscarded']_vars

\* C9 witness: a run cancelled mid-stream in its third turn, with partial
\* text received, has exited
C9_Witness ==
    /\ phase = "exited"
    /\ Len(turns) = 3
    /\ full_response # <<>>
    /\ chunks_seen = 2

\* the window get_agent_response computes for the text received so far
ExpectedWindow ==
    truncate_text_to_fit(
        conversation_log \o Header(turns[Len(turns)]) \o full_response,
        available_height, available_width)

\* C10 (the claim as stated): after a cancellation mid-stream with k >= 1
\* chunks received, the final displayed window is the fitted window of
\* log + header + the concatenation of those chunks.
C10_DisplayAfterAnyChunks ==
    (phase = "exited" /\ chunks_seen >= 1)
    => /\ printed.text = ExpectedWindow
       /\ conversation_panel = printed

\* C10 (amended): after a cancellation while waiting for the next chunk,
\* with k >= 1 chunks received of which at least one had content, the panel
\* and the final displayed window are the fitted window of log + header +
\* the concatenation of those chunks, titled with the speaker; the
\* cancellation does not change the panel.
C10_DisplayPreserved ==
    /\ (phase \in {"interrupted", "exited"} /\ chunks_seen >= 1
          /\ full_response # <<>>)
       => /\ conversation_panel.text = ExpectedWindow
          /\ conversation_panel.title =
               <<"Conversation - ", turns[Len(turns)], " speaking...">>
    /\ (phase = "exited" => printed = conversation_panel)

\* C10 witness: cancelled in the second turn after two chunks with
\* content, on a terminal where the window is a proper truncation
C10_Witness ==
    /\ phase = "exited"
    /\ Len(turns) = 2
    /\ chunks_seen = 2
    /\ Len(full_response) = 2
    /\ available_height > 0
    /\ Len(printed.text) < Len(conversation_log) + Len(full_response)

\* C11 (the claim as stated): every completion failure, before the stream
\* is produced or while its chunks are consumed, reaches the top level as
\* an error that names the speaker whose turn failed.
C11_ErrorNamesSpeaker ==
    phase = "raised"
    => \E i \in 1 .. Len(raised) : raised[i] = turns[Len(turns)]

RECURSIVE Concat(_)
Concat(cs) == IF cs = <<>> THEN <<>> ELSE Head(cs) \o Concat(Tail(cs))

\* the speaker of the latest turn and the other one
ActiveSpeaker == turns[Len(turns)]

OtherSpeaker == IF ActiveSpeaker = "Nietzsche" THEN "Heidegger" ELSE "Nietzsche"

FoldStep == phase = "streaming" /\ phase' = "ready"

\* C12: Fold appends exactly one block: when a turn's stream completes the
\* new log is the old log followed by one record header + body + blank
\* line, where body is the concatenation of all chunks of the turn and is
\* the content of the assistant entry appended to the speaker's history;
\* the partial block of the next turn starts empty.
C12_FoldAppendsOneBlock ==
    [][/\ FoldStep
          => /\ conversation_log' =
                  conversation_log
                  \o <<"*", "*">> \o NameChars(ActiveSpeaker)
                  \o <<":", "*", "*", "\n", "\n">>
                  \o Concat(chunks) \o <<"\n", "\n">>
             /\ LogBlocks' = LogBlocks + 1
             /\ ActiveHistory' =
                  Append(ActiveHistory,
                         [role |-> "assistant", content |-> Concat(chunks)])
       /\ (phase = "requesting" /\ phase' = "streaming")
          => full_response' = <<>>]_vars

\* C12 witness: the second turn was folded after two chunks with content
C12_Witness ==
    /\ phase = "ready"
    /\ Len(turns) = 2
    /\ Len(chunks) = 2
    /\ Len(heidegger_response) = 2

\* the state right after a fold: the next call has not started
AfterFold == phase = "ready" /\ turns # <<>>

\* the candidate display of the next turn with an empty partial block
NextCandidateDisplay ==
    CurrentDisplay(conversation_log, CallSite(site).agent_name, <<>>)

\* C13 (the claim as stated): immediately after a fold the candidate
\* display of the next turn with an empty partial block equals the log.
C13_CandidateEqualsLog ==
    AfterFold => NextCandidateDisplay = conversation_log

\* C13 (amended): immediately after a fold the candidate display of the
\* next turn with an empty partial block is the log followed by the header
\* of the next speaker, who is the other speaker.
C13_CandidateIsLogPlusHeader ==
    AfterFold
    => NextCandidateDisplay =
         conversation_log
         \o <<"*", "*">> \o NameChars(OtherSpeaker)
         \o <<":", "*", "*", "\n", "\n">>

\* C13 witness: the fourth turn has been folded, with a non-empty body
C13_Witness ==
    /\ AfterFold
    /\ Len(turns) = 4
    /\ heidegger_response # <<>>

\* C14: Prompt relay: Nietzsche's first user entry is the opening
\* question; Heidegger's first is Nietzsche's first response, a blank line
\* and the follow-up framing; every later user entry is the complete
\* response the other speaker gave in the turn before, unmodified.
C14_PromptRelay ==
    /\ (Len(nietzsche_messages) >= 2
          => nietzsche_messages[2] = [role |-> "user", content |-> FIRST_QUESTION])
    /\ (Len(heidegger_messages) >= 2
          => heidegger_messages[2] =
               [role |-> "user",
                content |-> nietzsche_messages[3].content \o <<"\n", "\n">>
                            \o <<"FIRST_ANSWER">>])
    /\ \A k \in 2 .. Len(nietzsche_messages) \div 2 :
         nietzsche_messages[2 * k] =
           [role |-> "user", content |-> heidegger_messages[2 * k - 1].content]
    /\ \A k \in 2 .. Len(heidegger_messages) \div 2 :
         heidegger_messages[2 * k] =
           [role |-> "user", content |-> nietzsche_messages[2 * k + 1].content]
    /\ (phase \in {"requesting", "streaming"} /\ Len(turns) >= 3
          => /\ ActiveHistory[Len(ActiveHistory)].role = "user"
             /\ ActiveHistory[Len(ActiveHistory)].content =
                  (IF ActiveSpeaker = "Nietzsche" THEN heidegger_response
                   ELSE nietzsche_response))

\* C14 witness: the fifth turn is under way and the responses relayed in
\* turns 3 to 5 differ in length
C14_Witness ==
    /\ Len(turns) = 5
    /\ phase = "streaming"
    /\ Len(nietzsche_messages[3].content) = 1
    /\ Len(heidegger_messages[3].content) = 2
    /\ Len(nietzsche_messages[5].content) = 0
    /\ Len(heidegger_messages[5].content) = 1

\* the panel get_agent_response shows for the chunks received so far
ExpectedPanel ==
    [text |-> truncate_text_to_fit(
                  conversation_log
                  \o <<"*", "*">> \o NameChars(ActiveSpeaker)
                  \o <<":", "*", "*", "\n", "\n">> \o Concat(chunks),
                  available_height, available_width),
     title |-> <<"Conversation - ", ActiveSpeaker, " speaking...">>]

ChunkStep == phase = "streaming" /\ Len(chunks') = Len(chunks) + 1

\* C15 (the claim as stated): after every chunk of the active stream,
\* empty chunks and the first chunk of a turn included, the panel shows
\* the fitted window of log + header + text received so far, labelled
\* with the active speaker.
C15_RedrawAfterEveryChunk ==
    (phase = "streaming" /\ Len(chunks) >= 1)
    => conversation_panel = ExpectedPanel

\* C15 (amended): after every chunk with non-empty content, the first
\* such chunk of a turn included, the panel shows the fitted window of
\* log + header + text received so far, labelled with the active speaker;
\* a chunk whose content is empty or None redraws nothing.
C15_RedrawAfterContent ==
    /\ [](phase = "streaming" /\ Concat(chunks) # <<>>
            => conversation_panel = ExpectedPanel)
    /\ [][ChunkStep /\ chunks'[Len(chunks')] = <<>>
            => conversation_panel' = conversation_panel]_vars

\* C15 witness: Heidegger's first chunk with content has arrived after an
\* empty one, on a terminal where the window is truncated
C15_Witness ==
    /\ phase = "streaming"
    /\ Len(turns) = 2
    /\ chunks = <<<<>>, <<"h">>>>
    /\ available_height > 0
    /\ Len(conversation_panel.text) < Len(conversation_log)

\* C17: No retry after failure: the step in which a completion failure
\* occurs ends the run in the raised state: no assistant entry and no
\* block for the failed turn, no closing print of a clean exit; after it
\* no step is taken, so completion is not invoked and no turn is started.
C17_NoRetryAfterFailure ==
    [][/\ raised = <<>>
       /\ raised' # <<>>
          => /\ phase' = "raised"
             /\ nietzsche_messages' = nietzsche_messages
             /\ heidegger_messages' = heidegger_messages
             /\ conversation_log' = conversation_log
             /\ turns' = turns
             /\ AssistantEntries' = Len(turns') - 1
             /\ LogBlocks' = Len(turns') - 1
             /\ printed' = <<>>
       /\ phase # "raised"]_vars

\* C17 witness: the third turn failed mid-stream after a chunk with content
C17_Witness ==
    /\ phase = "raised"
    /\ Len(turns) = 3
    /\ full_response # <<>>
    /\ raised # <<>>

IsPrefix(a, b) == Len(a) <= Len(b) /\ SubSeq(b, 1, Len(a)) = a

\* C18: Folds happen only at turn completion: a chunk-arrival step leaves
\* the log and both histories unchanged and only appends to the partial
\* block; in every step the log before is a prefix of the log after.
C18_FoldsOnlyAtCompletion ==
    [][/\ ChunkStep
          => /\ conversation_log' = conversation_log
             /\ nietzsche_messages' = nietzsche_messages
             /\ heidegger_messages' = heidegger_messages
             /\ full_response' = full_response \o chunks'[Len(chunks')]
       /\ IsPrefix(conversation_log, conversation_log')
       /\ (conversation_log' # conversation_log => FoldStep)]_vars

\* C18 witness: a second chunk with content has arrived in the third turn
C18_Witness ==
    /\ phase = "streaming"
    /\ Len(turns) = 3
    /\ chunks = <<<<"n">>, <<"n">>>>
    /\ LogBlocks = 2

\* ------------------------------------------------------------------------
\* Liveness of the turn controller (checked under SpecLive)
\* ------------------------------------------------------------------------
CompletedTurns(messages) == CountRole(messages, "assistant")

RECURSIVE FloorLog2(_)
FloorLog2(n) == IF n <= 1 THEN 0 ELSE 1 + FloorLog2(n \div 2)

\* measure(text[s:]) of the call in progress
TextHeightAt(s) == get_rendered_height(SubSeq(text, s + 1, Len(text)), width)

\* a step of the call in progress that measured one more probe
ProbeStep == fit_pc = "search" /\ measurements' = measurements + 1

\* C19: The binary search terminates for every text, budget and oracle:
\* every iteration makes one measurement of a new offset and leaves an
\* interval high - low of at most half the one before, never negative, so
\* a call on a non-empty text makes at most floor(log2(len(text))) + 1
\* probes and, with the measurement of the whole text, at most
\* floor(log2(len(text))) + 2 measurements.
C19_SearchCost ==
    /\ [](Len(text) > 0
            => /\ measurements <= FloorLog2(Len(text)) + 2
               /\ Cardinality(probed) <= FloorLog2(Len(text)) + 1)
    /\ [](fit_pc = "search"
            => /\ measurements = Cardinality(probed) + 1
               /\ 0 <= low /\ low <= high /\ high <= Len(text))
    /\ [][ProbeStep
            => /\ 2 * (high' - low') <= high - low
               /\ high' - low' < high - low
               /\ Cardinality(probed') = Cardinality(probed) + 1]_vars

\* C19 witness: a call under an oracle that is not monotone has returned
\* after exactly floor(log2(len(text))) + 2 measurements
C19_Witness ==
    /\ FirstCallReturned
    /\ ~MonotoneOracle
    /\ Len(text) = 4
    /\ measurements = FloorLog2(Len(text)) + 2

\* C20: For every oracle and every L > 0 the returned string is within the
\* budget or is the whole text; every probed offset is below len(text);
\* the returned string is over budget exactly when the whole text is over
\* budget and no probed offset's suffix fits, and then it is the whole
\* text.
C20_OverBudgetOnlyUntruncated ==
    fit_pc = "returned" /\ max_lines > 0
    => LET over == get_rendered_height(fit_result, width) > max_lines
       IN  /\ ~over \/ fit_result = text
           /\ \A s \in probed : s < Len(text)
           /\ over <=> /\ TextHeightAt(0) > max_lines
                       /\ \A s \in probed : TextHeightAt(s) > max_lines
           /\ over => fit_result = text

\* C20 witness: under an oracle that is not monotone the search probed
\* offsets, none of them fitting, and returned the over-budget text whole
\* although an offset it did not probe starts a fitting suffix
C20_Witness ==
    /\ FirstCallReturned
    /\ max_lines > 0
    /\ ~MonotoneOracle
    /\ probed # {}
    /\ fit_result = text
    /\ get_rendered_height(fit_result, width) > max_lines
    /\ \E s \in 1 .. Len(text) - 1 :
         s \notin probed /\ TextHeightAt(s) <= max_lines

====
